---- MODULE Spec2Model ----
(***************************************************************************)
(* Model of the batch video generation core of src/src/lib/gemini.ts:      *)
(* generateBatch -> (p-limit, cap 2) -> generateVideo ->                   *)
(* startVideoGeneration -> pollOperation -> downloadVideoBlob / save.      *)
(*                                                                         *)
(* JavaScript runs one macrotask at a time, so every action below is the   *)
(* code that runs between two suspension points (a network response, a     *)
(* timer, a disk write): the continuation of one await up to the next      *)
(* await, including the promise reactions (microtasks) it triggers.        *)
(***************************************************************************)
EXTENDS Integers, Sequences, FiniteSets, TLC

\* ---------------------------------------------------------------- bounds
\* Largest batch the model submits (requests are numbered 0..n-1).
NumItems == 3
\* Largest number of generatedSamples a completed operation reports when the
\* batch holds a single request.
MaxSamples == 2
\* Largest number of generatedSamples a completed operation reports when the
\* batch holds several requests.
BatchSamples == 1

\* The clock of ClockSpec counts milliseconds from 0 up to MaxTime
MaxTime == 1

\* referenceImages lists have at most MaxRefs images
MaxRefs == 2

\* checkAndRefreshLicense is called at most MaxChecks times per run of the application
MaxChecks == 2

\* BananaTab holds NumImages items, more than its cap
NumImages == 4

\* handleGenerateAll is called at most ImageBatches times
ImageBatches == 2

\* TextToVideoTab holds NumPrompts prompts, more than the cap
NumPrompts == 3

\* handleProcessAll and retrySingle are called at most MaxRuns times in all
MaxRuns == 2

\* src/unnamed/part_008: const limit = pLimit(3)
ImageLimit == 3

\* ------------------------------------------------------ program constants
\* const limit = pLimit(2)
Limit == 2

Items == 0..(NumItems - 1)

\* Error messages of gemini.ts
Cancelled == "Cancelled"
NoVideoInResponse == "No video in response"
PollingFailedDefault == "Polling failed"
StartFailedDefault == "Failed to start video generation"
NoOperationName == "No operation name returned"
DownloadFailedMessage == "Failed to download video: 404"
\* err.error.message of a provider error body, when it has one
ProviderMessage == "provider message"
\* The message of the SyntaxError res.json() rejects with
JsonParseMessage == "Unexpected token < in JSON at position 0"

VARIABLES
    n,            \* number of requests of the generateBatch call (items.length)
    batch,        \* the promise generateBatch returned: idle (not called) | pending | resolved | rejected
    aborted,      \* signal.aborted of the AbortSignal shared by the batch's requests
    queue,        \* p-limit's queue of tasks not yet run (request positions, FIFO)
    activeCount,  \* p-limit's activeCount
    pc,           \* per request: where its generateVideo invocation is suspended
    task,         \* per request: state of the promise limit(...) returned
    samples,      \* per request: pollOperation's samples, read from a done:true response
    i,            \* per request: the loop variable i of pollOperation's sample loop
    blobUrls,     \* per request: pollOperation's blobUrls
    filePaths,    \* per request: pollOperation's filePaths
    downloadCalls,    \* per request: downloadVideoBlob calls issued
    downloadFailures, \* per request: downloadVideoBlob calls answered non-2xx
    writeFailed,      \* per request: the sample indexes whose disk write threw
    now,              \* the value Date.now() returns
    filename,         \* per request: pollOperation's filename while its write is awaited
    params,           \* per request: the GenerateVideoParams startVideoGeneration reads
    body,             \* per request: the body of its POST :predictLongRunning
    submitCalls,      \* per request: POST :predictLongRunning calls issued
    submitResp,       \* per request: the answers its submission calls got
    failedQuery,      \* per request: a status query of it was answered non-2xx
    received,     \* per index: the updates the caller's onUpdate(index, .) received
    licenseData,  \* the stored license getLicenseData reads and saveLicenseData writes
    isLicensed,   \* App's state isLicensed
    activeTab,    \* App's state activeTab
    checks,       \* per checkAndRefreshLicense call: its position and locals
    activation,   \* ConfigTab's handleSaveLicense call: its position and locals
    lastAnswer,   \* what the licensing server said in its most recent answer
    prompts,      \* TextToVideoTab's state prompts: per prompt, results and isProcessing
    isBatchProcessing,   \* TextToVideoTab's state isBatchProcessing
    abortControllerRef,  \* TextToVideoTab's abortControllerRef.current (0 is null)
    runs,         \* per handleProcessAll / retrySingle call: kind and controller
    jobs,         \* per call and prompt: the position of its generateVideo
    items,        \* BananaTab's state items: per item its status
    isProcessing, \* BananaTab's state isProcessing
    imageControllerRef,  \* BananaTab's abortControllerRef.current (0 is null)
    imageAborted, \* per handleGenerateAll call: its controller's signal.aborted
    imageBatch,   \* per handleGenerateAll call: where the call is
    imageTasks,   \* per handleGenerateAll call and item: where its limit(...) task is
    imageQueue,   \* the queue of BananaTab's module-level pLimit(3)
    imageActive   \* its activeCount

vars == <<n, batch, aborted, queue, activeCount, pc, task, samples, i,
          blobUrls, filePaths, downloadCalls, downloadFailures, writeFailed,
          now, filename, params, body, submitCalls, submitResp, failedQuery,
          received, licenseData, isLicensed, activeTab, checks, activation,
          lastAnswer, prompts, isBatchProcessing, abortControllerRef, runs, jobs,
          items, isProcessing, imageControllerRef, imageAborted, imageBatch,
          imageTasks, imageQueue, imageActive>>

\* The state of App and its licensing
licenseVars == <<licenseData, isLicensed, activeTab, checks, activation, lastAnswer>>

\* The state of TextToVideoTab
tabVars == <<prompts, isBatchProcessing, abortControllerRef, runs, jobs>>

\* The state of BananaTab and its own limiter
imageVars == <<items, isProcessing, imageControllerRef, imageAborted, imageBatch,
               imageTasks, imageQueue, imageActive>>

\* The state of the application around the generation module
appVars == <<licenseVars, tabVars, imageVars>>

\* ------------------------------------------------------------ responses
\* A response to POST :predictLongRunning with a JSON body. (json = FALSE:
\* the body is not JSON, an HTML error page or an empty body, so res.json()
\* rejects; the batch specifications leave these answers to SingleSpec.)
SubmitResponses ==
    { [ok |-> TRUE,  json |-> TRUE,  name |-> TRUE,  message |-> FALSE],
      [ok |-> TRUE,  json |-> TRUE,  name |-> FALSE, message |-> FALSE],
      [ok |-> FALSE, json |-> TRUE,  name |-> FALSE, message |-> TRUE],
      [ok |-> FALSE, json |-> TRUE,  name |-> FALSE, message |-> FALSE] }

\* The same, and the answers whose body is not JSON
SubmitResponsesAnyBody ==
    SubmitResponses
    \cup { [ok |-> b, json |-> FALSE, name |-> FALSE, message |-> FALSE] : b \in BOOLEAN }

\* A response to GET /{operationName}. hasSamples = FALSE: the body has no
\* response.generateVideoResponse.generatedSamples; samples is the list's length.
QueryResponsesUpTo(cap) ==
    { [ok |-> FALSE, json |-> TRUE, message |-> m, done |-> FALSE, hasSamples |-> FALSE, samples |-> 0] : m \in BOOLEAN }
    \cup { [ok |-> TRUE, json |-> TRUE, message |-> FALSE, done |-> FALSE, hasSamples |-> FALSE, samples |-> 0] }
    \cup { [ok |-> TRUE, json |-> TRUE, message |-> FALSE, done |-> TRUE, hasSamples |-> FALSE, samples |-> 0] }
    \cup { [ok |-> TRUE, json |-> TRUE, message |-> FALSE, done |-> TRUE, hasSamples |-> TRUE, samples |-> k] : k \in 0..cap }

\* The answer to a status query while the operation is still running
StillRunning ==
    [ok |-> TRUE, json |-> TRUE, message |-> FALSE, done |-> FALSE,
     hasSamples |-> FALSE, samples |-> 0]

\* The responses the model lets the provider give to a status query of a
\* batch of `count` requests.
QueryResponses(count) ==
    QueryResponsesUpTo(IF count <= 1 THEN MaxSamples ELSE BatchSamples)

\* The same, and the answers whose body is not JSON
QueryResponsesAnyBody(count) ==
    QueryResponses(count)
    \cup { [ok |-> b, json |-> FALSE, message |-> FALSE, done |-> FALSE,
            hasSamples |-> FALSE, samples |-> 0] : b \in BOOLEAN }

\* pollOperation has read no done:true response yet
NoSamplesRead == [read |-> FALSE, present |-> FALSE, length |-> 0]

\* ------------------------------------------------------ the submission body
\* A JavaScript object is a function from its keys; a key that is absent (or
\* whose value is undefined) is not in its domain.
EmptyObject == [k \in {} |-> k]

ObjectKeys(o) == DOMAIN o

Has(o, key) == key \in DOMAIN o

\* { base64, mimeType } values of image, lastFrame and referenceImages
Images ==
    { [base64 |-> "AAAA", mimeType |-> "image/png"],
      [base64 |-> "BBBB", mimeType |-> "image/jpeg"] }

\* The lists of at most k images
RECURSIVE ImageLists(_)
ImageLists(k) ==
    IF k = 0 THEN { <<>> }
    ELSE ImageLists(k - 1)
         \cup { Append(l, img) : l \in { m \in ImageLists(k - 1) : Len(m) = k - 1 },
                                 img \in Images }

\* An optional field of GenerateVideoParams: absent, or one of the values
Optional(key, values) == { EmptyObject } \cup { key :> v : v \in values }

\* The GenerateVideoParams startVideoGeneration reads (model and apiKey go
\* into the URL, saveDir and signal are not read by it)
Params ==
    { ("prompt" :> "a cat") @@ ar @@ im @@ lf @@ rf :
        ar \in Optional("aspectRatio", {"16:9", "9:16"}),
        im \in Optional("image", Images),
        lf \in Optional("lastFrame", Images),
        rf \in Optional("referenceImages", ImageLists(MaxRefs)) }

\* { inlineData: { mimeType: img.mimeType, data: img.base64 } }
InlineData(img) == [inlineData |-> [mimeType |-> img.mimeType, data |-> img.base64]]

\* params.referenceImages.map(img => ({ image: ..., referenceType: "asset" }))
ReferenceImages(imgs) ==
    [k \in 1..Len(imgs) |-> [image |-> InlineData(imgs[k]), referenceType |-> "asset"]]

\* The instance startVideoGeneration builds
Instance(prm) ==
    IF Has(prm, "image")
    THEN ("prompt" :> prm.prompt) @@ ("image" :> InlineData(prm.image))
    ELSE ("prompt" :> prm.prompt)

\* The parameters object startVideoGeneration builds
Parameters(prm) ==
    LET p1 == IF Has(prm, "aspectRatio")
              THEN "aspectRatio" :> prm.aspectRatio
              ELSE EmptyObject
        p2 == IF Has(prm, "lastFrame")
              THEN p1 @@ ("lastFrame" :> InlineData(prm.lastFrame))
              ELSE p1
    IN IF Has(prm, "referenceImages") /\ Len(prm.referenceImages) > 0
       THEN p2 @@ ("referenceImages" :> ReferenceImages(prm.referenceImages))
       ELSE p2

\* The body startVideoGeneration posts: { instances: [instance] }, with the
\* key parameters added if (Object.keys(parameters).length > 0)
BuildBodyAlwaysParameters(prm) ==
    ("instances" :> <<Instance(prm)>>) @@ ("parameters" :> Parameters(prm))
BuildBody(prm) ==
    IF Cardinality(ObjectKeys(Parameters(prm))) > 0
    THEN ("instances" :> <<Instance(prm)>>) @@ ("parameters" :> Parameters(prm))
    ELSE "instances" :> <<Instance(prm)>>

\* ----------------------------------------------------- VideoResult updates
\* Partial<VideoResult> as passed to onUpdate; absent fields are "" / <<>>.
LoadingUpdate ==
    [status |-> "loading", error |-> "", videoBlobUrls |-> <<>>, videoFilePaths |-> <<>>]

ErrorUpdate(message) ==
    [status |-> "error", error |-> message, videoBlobUrls |-> <<>>, videoFilePaths |-> <<>>]

SuccessUpdatePathsTwice(urls, paths) ==
    [status |-> "success", error |-> "", videoBlobUrls |-> paths, videoFilePaths |-> paths]
SuccessUpdate(urls, paths) ==
    [status |-> "success", error |-> "", videoBlobUrls |-> urls, videoFilePaths |-> paths]

\* generateBatch's wrapper (update) => onUpdate(index, update): the index
\* the caller's onUpdate is called with for the request at position `index`.
WrappedIndexShared(index) == 0
WrappedIndex(index) == index

\* onUpdate of request `req` called with update u: the caller receives it
\* under the wrapper's index. `req` records which request produced it.
Deliver(rcv, req, u) ==
    [rcv EXCEPT ![WrappedIndex(req)] =
        Append(@, [req |-> req, status |-> u.status, error |-> u.error,
                   videoBlobUrls |-> u.videoBlobUrls,
                   videoFilePaths |-> u.videoFilePaths])]

\* generateVideo's first statement, onUpdate({status:'loading'}), for each
\* request p-limit starts, in start order.
StartUpdatesNone(req) == <<>>
StartUpdates(req) == <<LoadingUpdate>>

RECURSIVE DeliverSeq(_, _, _)
DeliverSeq(rcv, req, us) ==
    IF us = <<>> THEN rcv
    ELSE DeliverSeq(Deliver(rcv, req, Head(us)), req, Tail(us))

RECURSIVE DeliverStarts(_, _)
DeliverStarts(rcv, reqs) ==
    IF reqs = <<>> THEN rcv
    ELSE DeliverStarts(DeliverSeq(rcv, Head(reqs), StartUpdates(Head(reqs))), Tail(reqs))

\* ------------------------------------------------------------- p-limit
\* p-limit runs a queued task only while fewer than `concurrency` are active.
ShouldDequeueUncapped(active, q) == Len(q) > 0
ShouldDequeue(active, q) == active < Limit /\ Len(q) > 0

\* k scheduling checks of p-limit in a row: each runs the head of the queue
\* if ShouldDequeue. Result: the queue left, the new activeCount and the
\* tasks started, in order.
RECURSIVE DequeueLast(_, _, _, _)
DequeueLast(q, active, started, k) ==
    IF k = 0 THEN [queue |-> q, activeCount |-> active, started |-> started]
    ELSE IF ShouldDequeue(active, q)
         THEN DequeueLast(SubSeq(q, 1, Len(q) - 1), active + 1,
                          Append(started, q[Len(q)]), k - 1)
         ELSE DequeueLast(q, active, started, k - 1)
RECURSIVE DequeueOverCap(_, _, _, _)
DequeueOverCap(q, active, started, k) ==
    IF k = 0 THEN [queue |-> q, activeCount |-> active, started |-> started]
    ELSE IF active <= Limit /\ Len(q) > 0
         THEN DequeueOverCap(Tail(q), active + 1, Append(started, Head(q)), k - 1)
         ELSE DequeueOverCap(q, active, started, k - 1)
RECURSIVE Dequeue(_, _, _, _)
Dequeue(q, active, started, k) ==
    IF k = 0 THEN [queue |-> q, activeCount |-> active, started |-> started]
    ELSE IF ShouldDequeue(active, q)
         THEN Dequeue(Tail(q), active + 1, Append(started, Head(q)), k - 1)
         ELSE Dequeue(q, active, started, k - 1)

Range(s) == { s[k] : k \in 1..Len(s) }

\* Promise.all(tasks): rejected as soon as one task is, resolved when all are
\* fulfilled.
PromiseAll(tasks, count) ==
    IF \E j \in 0..(count - 1) : tasks[j] = "rejected" THEN "rejected"
    ELSE IF \A j \in 0..(count - 1) : tasks[j] = "fulfilled" THEN "resolved"
    ELSE "pending"

\* signal?.aborted as generateVideo and pollOperation read it
SignalAbortedNever == FALSE
SignalAborted == aborted

\* generateVideo's try/catch: whatever is thrown inside is turned into an
\* error update, so the async function's promise is fulfilled either way.
GenerateVideoSettlesRethrow(threw) == IF threw THEN "rejected" ELSE "fulfilled"
GenerateVideoSettles(threw) == "fulfilled"

\* ------------------------------------------------------------- licensing
\* checkAndRefreshLicense calls of one run of the application: the startup
\* check and the hourly ones
CheckIds == 1..MaxChecks

\* LicenseData (expiryDate and userEmail are null in every value written);
\* present = FALSE stands for the null getLicenseData returns when nothing
\* is stored.
NoLicenseData == [present |-> FALSE, key |-> "", status |-> "invalid", lastChecked |-> 0]

LicenseData(key, status, t) ==
    [present |-> TRUE, key |-> key, status |-> status, lastChecked |-> t]

\* A check or an activation that has not been called
NotCalled == [pc |-> "idle", currentData |-> NoLicenseData, license |-> "",
              threw |-> FALSE, afterInvalid |-> FALSE, result |-> FALSE]

\* handleSaveLicense before it is called
NotActivating == [pc |-> "idle", result |-> NoLicenseData]

\* ------------------------------------------------------------- the tabs
PromptIds == 0..(NumPrompts - 1)
RunIds == 1..MaxRuns
ImageItems == 0..(NumImages - 1)
ImageBatchIds == 1..ImageBatches

\* A generateVideo that was never called
NoJob == [pc |-> "none", own |-> 0, stopSeen |-> FALSE,
          last |-> [status |-> "none", error |-> ""]]

\* A handleProcessAll or retrySingle that was never called
NoRun == [kind |-> "none", aborted |-> FALSE, settled |-> FALSE]

\* TextToVideoTab's useState and useRef defaults, with NumPrompts prompts
\* entered and none generated yet
InitTab ==
    /\ prompts = [p \in PromptIds |-> [results |-> <<>>, isProcessing |-> FALSE]]
    /\ isBatchProcessing = FALSE
    /\ abortControllerRef = 0
    /\ runs = [r \in RunIds |-> NoRun]
    /\ jobs = [r \in RunIds |-> [p \in PromptIds |-> NoJob]]

\* BananaTab's useState and useRef defaults, with NumImages items entered
InitImage ==
    /\ items = [k \in ImageItems |-> "idle"]
    /\ isProcessing = FALSE
    /\ imageControllerRef = 0
    /\ imageAborted = [b \in ImageBatchIds |-> FALSE]
    /\ imageBatch = [b \in ImageBatchIds |-> "none"]
    /\ imageTasks = [b \in ImageBatchIds |-> [k \in ImageItems |-> "none"]]
    /\ imageQueue = <<>>
    /\ imageActive = 0

\* A specification of one component leaves the other components out: their
\* variables hold nothing and no step changes them
BatchUnused ==
    /\ n = <<>>
    /\ batch = <<>>
    /\ aborted = <<>>
    /\ pc = <<>>
    /\ task = <<>>
    /\ samples = <<>>
    /\ i = <<>>
    /\ blobUrls = <<>>
    /\ filePaths = <<>>
    /\ downloadCalls = <<>>
    /\ downloadFailures = <<>>
    /\ writeFailed = <<>>
    /\ filename = <<>>
    /\ params = <<>>
    /\ body = <<>>
    /\ submitCalls = <<>>
    /\ submitResp = <<>>
    /\ failedQuery = <<>>
    /\ received = <<>>

\* The module's limiter with nothing handed to it, and the clock at its start
LimiterIdle ==
    /\ queue = <<>>
    /\ activeCount = 0
    /\ now = 0

LicenseUnused ==
    /\ licenseData = <<>>
    /\ isLicensed = <<>>
    /\ activeTab = <<>>
    /\ checks = <<>>
    /\ activation = <<>>
    /\ lastAnswer = <<>>

TabUnused ==
    /\ prompts = <<>>
    /\ isBatchProcessing = <<>>
    /\ abortControllerRef = <<>>
    /\ runs = <<>>
    /\ jobs = <<>>

ImageUnused ==
    /\ items = <<>>
    /\ isProcessing = <<>>
    /\ imageControllerRef = <<>>
    /\ imageAborted = <<>>
    /\ imageBatch = <<>>
    /\ imageTasks = <<>>
    /\ imageQueue = <<>>
    /\ imageActive = <<>>

\* What the store can hold when the application starts
StoredLicenses ==
    { NoLicenseData, LicenseData("KEY-A", "active", 0),
      LicenseData("KEY-A", "invalid", 0) }

\* App's useState defaults, nothing called yet
InitApp ==
    /\ isLicensed = FALSE
    /\ activeTab = "text"
    /\ checks = [c \in CheckIds |-> NotCalled]
    /\ activation = NotActivating
    /\ lastAnswer = "none"

\* The params TextToVideoTab gives each request: prompt, model, apiKey,
\* aspectRatio, saveDir and signal
DefaultParams == ("prompt" :> "a cat") @@ ("aspectRatio" :> "16:9")

\* The state before generateBatch is called, but for the requests' params
InitBatch ==
    /\ n = 0
    /\ batch = "idle"
    /\ aborted = FALSE
    /\ queue = <<>>
    /\ activeCount = 0
    /\ pc = [j \in Items |-> "none"]
    /\ task = [j \in Items |-> "none"]
    /\ samples = [j \in Items |-> NoSamplesRead]
    /\ i = [j \in Items |-> 0]
    /\ blobUrls = [j \in Items |-> <<>>]
    /\ filePaths = [j \in Items |-> <<>>]
    /\ downloadCalls = [j \in Items |-> 0]
    /\ downloadFailures = [j \in Items |-> 0]
    /\ writeFailed = [j \in Items |-> {}]
    /\ now = 0
    /\ filename = [j \in Items |-> <<>>]
    /\ submitCalls = [j \in Items |-> 0]
    /\ submitResp = [j \in Items |-> <<>>]
    /\ failedQuery = [j \in Items |-> FALSE]
    /\ received = [j \in Items |-> <<>>]
    /\ body = [j \in Items |-> EmptyObject]

Init ==
    /\ InitBatch
    /\ params = [j \in Items |-> DefaultParams]
    /\ LicenseUnused
    /\ TabUnused
    /\ ImageUnused

\* generateBatch(items, onUpdate) with items.length = count: every request is
\* handed to limit(...) in input order; p-limit then starts as many as the cap
\* allows, and each started generateVideo emits 'loading' and issues its
\* POST :predictLongRunning before the first macrotask boundary.
GenerateBatch(count) ==
    /\ batch = "idle"
    /\ LET enq == [k \in 1..count |-> k - 1]
           d == Dequeue(queue \o enq, activeCount, <<>>, count)
       IN /\ n' = count
          /\ queue' = d.queue
          /\ activeCount' = d.activeCount
          /\ pc' = [j \in Items |->
                      IF j \in Range(d.started) THEN "submit"
                      ELSE IF j < count THEN "queued" ELSE "none"]
          /\ task' = [j \in Items |-> IF j < count THEN "pending" ELSE "none"]
          /\ received' = DeliverStarts(received, d.started)
          /\ submitCalls' = [j \in Items |->
                               IF j \in Range(d.started) THEN submitCalls[j] + 1
                               ELSE submitCalls[j]]
          /\ body' = [j \in Items |->
                        IF j \in Range(d.started) THEN BuildBody(params[j])
                        ELSE body[j]]
          /\ batch' = PromiseAll(task', count)
    /\ UNCHANGED <<aborted, samples, i, blobUrls, filePaths,
                   downloadCalls, downloadFailures, writeFailed,
                   now, filename, params, submitResp, failedQuery>>
    /\ UNCHANGED appVars

\* The caller aborts the AbortController whose signal every request of the
\* batch carries (handleStop). An abort before the generateBatch call leads
\* to the same state as one right after it, so only the latter is modelled.
Abort ==
    /\ batch # "idle"
    /\ ~aborted
    /\ aborted' = TRUE
    /\ UNCHANGED <<n, batch, queue, activeCount, pc, task, samples, i,
                   blobUrls, filePaths, downloadCalls, downloadFailures, writeFailed,
                   now, filename, params, body, submitCalls, submitResp,
                   failedQuery, received>>
    /\ UNCHANGED appVars

\* generateVideo of request r ends: its last onUpdate (the terminal update),
\* the task promise settles, p-limit's next() frees the slot and runs the
\* next queued task (which emits 'loading' and issues its POST), and
\* Promise.all reacts. pollOperation's locals i, blobUrls and filePaths are
\* gone with its frame.
Terminate(r, update, threw) ==
    LET d == Dequeue(queue, activeCount - 1, <<>>, 1)
    IN /\ queue' = d.queue
       /\ activeCount' = d.activeCount
       /\ pc' = [j \in Items |->
                   IF j = r THEN "done"
                   ELSE IF j \in Range(d.started) THEN "submit" ELSE pc[j]]
       /\ task' = [task EXCEPT ![r] = GenerateVideoSettles(threw)]
       /\ received' = DeliverStarts(Deliver(received, r, update), d.started)
       /\ submitCalls' = [j \in Items |->
                            IF j \in Range(d.started) THEN submitCalls[j] + 1
                            ELSE submitCalls[j]]
       /\ body' = [j \in Items |->
                     IF j \in Range(d.started) THEN BuildBody(params[j])
                     ELSE body[j]]
       /\ batch' = PromiseAll(task', n)
       /\ i' = [i EXCEPT ![r] = 0]
       /\ blobUrls' = [blobUrls EXCEPT ![r] = <<>>]
       /\ filePaths' = [filePaths EXCEPT ![r] = <<>>]
       /\ UNCHANGED <<n, aborted, params>>

\* generateVideo of request r suspends at its next await
Suspend(r, at) ==
    /\ pc' = [pc EXCEPT ![r] = at]
    /\ UNCHANGED <<n, batch, aborted, queue, activeCount, task, params, body,
                   submitCalls, received>>

\* pollOperation's loop head: if (signal?.aborted) throw Cancelled, else start
\* the 10 s sleep.
LoopHeadGivesUp(r) ==
    IF SignalAborted
    THEN Terminate(r, ErrorUpdate(Cancelled), TRUE)
    ELSE IF pc[r] = "query"
    THEN Terminate(r, ErrorUpdate("Polling timed out"), TRUE)
    ELSE /\ Suspend(r, "sleep")
         /\ UNCHANGED <<i, blobUrls, filePaths>>
LoopHeadNoSleep(r) ==
    IF SignalAborted
    THEN Terminate(r, ErrorUpdate(Cancelled), TRUE)
    ELSE /\ Suspend(r, "query")
         /\ UNCHANGED <<i, blobUrls, filePaths>>
LoopHead(r) ==
    IF SignalAborted
    THEN Terminate(r, ErrorUpdate(Cancelled), TRUE)
    ELSE /\ Suspend(r, "sleep")
         /\ UNCHANGED <<i, blobUrls, filePaths>>

\* The POST :predictLongRunning of request r is answered
\* (startVideoGeneration's continuation, then generateVideo's abort check
\* and pollOperation's first loop head).
SubmitReturnRetry(r, resp) ==
    /\ pc[r] = "submit"
    /\ IF ~resp.json \/ ~resp.ok
       THEN /\ submitCalls' = [submitCalls EXCEPT ![r] = @ + 1]
            /\ UNCHANGED <<n, batch, aborted, queue, activeCount, pc, task,
                           i, blobUrls, filePaths, params, body, received>>
       ELSE IF ~resp.name
       THEN Terminate(r, ErrorUpdate(NoOperationName), TRUE)
       ELSE IF SignalAborted
       THEN Terminate(r, ErrorUpdate(Cancelled), TRUE)
       ELSE LoopHead(r)
    /\ submitResp' = [submitResp EXCEPT ![r] = Append(@, resp)]
    /\ UNCHANGED <<samples, downloadCalls, downloadFailures, writeFailed,
                   now, filename, failedQuery>>
    /\ UNCHANGED appVars
SubmitReturn(r, resp) ==
    /\ pc[r] = "submit"
    /\ IF ~resp.json
       THEN Terminate(r, ErrorUpdate(JsonParseMessage), TRUE)
       ELSE IF ~resp.ok
       THEN Terminate(r, ErrorUpdate(IF resp.message THEN ProviderMessage
                                     ELSE StartFailedDefault), TRUE)
       ELSE IF ~resp.name
       THEN Terminate(r, ErrorUpdate(NoOperationName), TRUE)
       ELSE IF SignalAborted
       THEN Terminate(r, ErrorUpdate(Cancelled), TRUE)
       ELSE LoopHead(r)
    /\ submitResp' = [submitResp EXCEPT ![r] = Append(@, resp)]
    /\ UNCHANGED <<samples, downloadCalls, downloadFailures, writeFailed,
                   now, filename, failedQuery>>
    /\ UNCHANGED appVars

\* The 10 s timer of request r fires: second abort check, then the status
\* query GET /{operationName} is issued.
SleepEndNoCheck(r) ==
    /\ pc[r] = "sleep"
    /\ Suspend(r, "query")
    /\ UNCHANGED <<i, blobUrls, filePaths>>
    /\ UNCHANGED <<samples, downloadCalls, downloadFailures, writeFailed,
                   now, filename, submitResp, failedQuery>>
    /\ UNCHANGED appVars
SleepEnd(r) ==
    /\ pc[r] = "sleep"
    /\ IF SignalAborted
       THEN Terminate(r, ErrorUpdate(Cancelled), TRUE)
       ELSE /\ Suspend(r, "query")
            /\ UNCHANGED <<i, blobUrls, filePaths>>
    /\ UNCHANGED <<samples, downloadCalls, downloadFailures, writeFailed,
                   now, filename, submitResp, failedQuery>>
    /\ UNCHANGED appVars

\* if (!samples || samples.length === 0)
NoSamplesOnlyMissing(s) == ~s.present
NoSamples(s) == ~s.present \/ s.length = 0

\* The sample loop of pollOperation at index k with the lists so far: either
\* the download of sample k is issued, or the loop is over and generateVideo
\* reports success with the two lists.
SampleLoop(r, count, k, urls, paths) ==
    IF k < count
    THEN /\ i' = [i EXCEPT ![r] = k]
         /\ blobUrls' = [blobUrls EXCEPT ![r] = urls]
         /\ filePaths' = [filePaths EXCEPT ![r] = paths]
         /\ downloadCalls' = [downloadCalls EXCEPT ![r] = @ + 1]
         /\ Suspend(r, "download")
    ELSE /\ Terminate(r, SuccessUpdate(urls, paths), FALSE)
         /\ UNCHANGED downloadCalls

\* const samples = data.response?.generateVideoResponse?.generatedSamples
SamplesOf(resp) == [read |-> TRUE, present |-> resp.hasSamples, length |-> resp.samples]

\* The status query of request r is answered.
QueryReturn(r, resp) ==
    /\ pc[r] = "query"
    /\ IF ~resp.json
       THEN /\ Terminate(r, ErrorUpdate(JsonParseMessage), TRUE)
            /\ UNCHANGED <<samples, downloadCalls>>
       ELSE IF ~resp.ok
       THEN /\ Terminate(r, ErrorUpdate(IF resp.message THEN ProviderMessage
                                        ELSE PollingFailedDefault), TRUE)
            /\ UNCHANGED <<samples, downloadCalls>>
       ELSE IF ~resp.done
       THEN /\ LoopHead(r)
            /\ UNCHANGED <<samples, downloadCalls>>
       ELSE /\ samples' = [samples EXCEPT ![r] = SamplesOf(resp)]
            /\ IF NoSamples(SamplesOf(resp))
               THEN /\ Terminate(r, ErrorUpdate(NoVideoInResponse), TRUE)
                    /\ UNCHANGED downloadCalls
               ELSE SampleLoop(r, SamplesOf(resp).length, 0, <<>>, <<>>)
    /\ failedQuery' = [failedQuery EXCEPT ![r] = @ \/ ~resp.ok]
    /\ UNCHANGED <<downloadFailures, writeFailed, now, filename, submitResp>>
    /\ UNCHANGED appVars

\* const filename = `veo3_${Date.now()}_${i}.mp4` with Date.now() = t, i = k
Filename(t, k) == <<"veo3", t, k, "mp4">>

\* The directory the requests of the batch save into (params.saveDir, or the
\* application's video directory when it is not set)
SaveDir == "saveDir"

\* join(dir, name) of saveVideoFileToDir / saveVideoFile
Join(dir, name) == <<dir, name>>

\* downloadVideoBlob: if (!res.ok) throw
DownloadThrows(ok) == ~ok

\* The download of sample i of request r is answered. On success the blob's
\* object URL (named by the sample index) is pushed, the filename is made
\* from the clock and i, and the disk write is issued; the throw of a failed download is not caught inside pollOperation.
DownloadReturn(r, ok) ==
    /\ pc[r] = "download"
    /\ IF DownloadThrows(ok)
       THEN /\ downloadFailures' = [downloadFailures EXCEPT ![r] = @ + 1]
            /\ Terminate(r, ErrorUpdate(DownloadFailedMessage), TRUE)
            /\ UNCHANGED filename
       ELSE /\ blobUrls' = [blobUrls EXCEPT ![r] = Append(@, i[r])]
            /\ filename' = [filename EXCEPT ![r] = Filename(now, i[r])]
            /\ Suspend(r, "save")
            /\ UNCHANGED <<i, filePaths, downloadFailures>>
    /\ UNCHANGED <<samples, downloadCalls, writeFailed, now, submitResp, failedQuery>>
    /\ UNCHANGED appVars

\* saveVideoFileToDir / saveVideoFile of sample i of request r returns or
\* throws; a throw is caught and logged. Then the loop goes on with i + 1.
\* The file path pushed is join(directory, filename).
SaveReturnFatal(r, ok) ==
    /\ pc[r] = "save"
    /\ writeFailed' = IF ok THEN writeFailed
                      ELSE [writeFailed EXCEPT ![r] = @ \cup {i[r]}]
    /\ filename' = [filename EXCEPT ![r] = <<>>]
    /\ IF ok
       THEN SampleLoop(r, samples[r].length, i[r] + 1, blobUrls[r],
                       Append(filePaths[r], Join(SaveDir, filename[r])))
       ELSE /\ Terminate(r, ErrorUpdate("write failed"), TRUE)
            /\ UNCHANGED downloadCalls
    /\ UNCHANGED <<samples, downloadFailures, now, submitResp, failedQuery>>
    /\ UNCHANGED appVars
SaveReturnAlwaysPush(r, ok) ==
    /\ pc[r] = "save"
    /\ writeFailed' = IF ok THEN writeFailed
                      ELSE [writeFailed EXCEPT ![r] = @ \cup {i[r]}]
    /\ filename' = [filename EXCEPT ![r] = <<>>]
    /\ SampleLoop(r, samples[r].length, i[r] + 1, blobUrls[r],
                  Append(filePaths[r], Join(SaveDir, filename[r])))
    /\ UNCHANGED <<samples, downloadFailures, now, submitResp, failedQuery>>
    /\ UNCHANGED appVars
SaveReturn(r, ok) ==
    /\ pc[r] = "save"
    /\ writeFailed' = IF ok THEN writeFailed
                      ELSE [writeFailed EXCEPT ![r] = @ \cup {i[r]}]
    /\ filename' = [filename EXCEPT ![r] = <<>>]
    /\ SampleLoop(r, samples[r].length, i[r] + 1, blobUrls[r],
                  IF ok THEN Append(filePaths[r], Join(SaveDir, filename[r])) ELSE filePaths[r])
    /\ UNCHANGED <<samples, downloadFailures, now, submitResp, failedQuery>>
    /\ UNCHANGED appVars

Next ==
    \/ \E count \in 0..NumItems : GenerateBatch(count)
    \/ Abort
    \/ \E r \in Items, resp \in SubmitResponses : SubmitReturn(r, resp)
    \/ \E r \in Items : SleepEnd(r)
    \/ \E r \in Items, resp \in QueryResponses(n) : QueryReturn(r, resp)
    \/ \E r \in Items, ok \in BOOLEAN : DownloadReturn(r, ok)
    \/ \E r \in Items, ok \in BOOLEAN : SaveReturn(r, ok)

Spec == Init /\ [][Next]_vars

\* A millisecond passes: Date.now() returns the next value.
Tick ==
    /\ now < MaxTime
    /\ now' = now + 1
    /\ UNCHANGED <<n, batch, aborted, queue, activeCount, pc, task, samples, i,
                   blobUrls, filePaths, downloadCalls, downloadFailures,
                   writeFailed, filename, params, body, submitCalls, submitResp,
                   failedQuery, received>>
    /\ UNCHANGED appVars

\* The batch with the clock running: any number of continuations can run
\* within one millisecond, and any number of milliseconds can pass between two.
ClockNext == Next \/ Tick

ClockSpec == Init /\ [][ClockNext]_vars

\* One generateVideo invocation with any params and any answer bodies: a
\* batch of one request.
InitSingle ==
    /\ InitBatch
    /\ \E p \in Params : params = [j \in Items |-> IF j = 0 THEN p ELSE DefaultParams]
    /\ LicenseUnused
    /\ TabUnused
    /\ ImageUnused

SingleNext ==
    \/ GenerateBatch(1)
    \/ Abort
    \/ \E resp \in SubmitResponsesAnyBody : SubmitReturn(0, resp)
    \/ SleepEnd(0)
    \/ \E resp \in QueryResponsesAnyBody(n) : QueryReturn(0, resp)
    \/ \E ok \in BOOLEAN : DownloadReturn(0, ok)
    \/ \E ok \in BOOLEAN : SaveReturn(0, ok)

SingleSpec == InitSingle /\ [][SingleNext]_vars

\* Every issued network call is answered, every timer fires and every disk
\* write ends: the event loop runs each continuation that is ready.
Returns ==
    \/ \E r \in Items, resp \in SubmitResponses : SubmitReturn(r, resp)
    \/ \E r \in Items : SleepEnd(r)
    \/ \E r \in Items, resp \in QueryResponses(n) : QueryReturn(r, resp)
    \/ \E r \in Items, ok \in BOOLEAN : DownloadReturn(r, ok)
    \/ \E r \in Items, ok \in BOOLEAN : SaveReturn(r, ok)

FairSpec == Spec /\ WF_vars(Returns)

\* ------------------------------------------------------------- licensing
\* The tabs of the navigation bar
Tabs == {"text", "image", "banana", "visual", "config", "logs"}

\* What the licensing server can answer to GET /api/check: a 404, or a status
\* with a body that is JSON or not, carrying valid and license
CheckResponses ==
    { [status |-> 404, json |-> TRUE, valid |-> FALSE, license |-> ""] }
    \cup [status : {200}, json : {TRUE}, valid : {TRUE}, license : {"", "KEY-B"}]
    \cup [status : {200, 500}, json : {TRUE}, valid : {FALSE}, license : {""}]
    \cup { [status |-> 500, json |-> TRUE, valid |-> TRUE, license |-> ""] }
    \cup { [status |-> 500, json |-> FALSE, valid |-> FALSE, license |-> ""] }

\* response.ok
Ok(resp) == resp.status \in 200..299

\* The answer of a check says the license is valid
SaysValid(resp) == resp.status # 404 /\ resp.json /\ Ok(resp) /\ resp.valid

\* The batch's variables, which no licensing step touches
batchVars == <<n, batch, aborted, queue, activeCount, pc, task, samples, i,
               blobUrls, filePaths, downloadCalls, downloadFailures, writeFailed,
               filename, params, body, submitCalls, submitResp, failedQuery,
               received>>

\* checkAndRefreshLicense returns isValid and App's .then callback runs
Resolve(c, isValid) ==
    /\ checks' = [checks EXCEPT ![c] = [NotCalled EXCEPT !.pc = "done",
                                                        !.threw = checks[c].threw,
                                                        !.afterInvalid = checks[c].afterInvalid,
                                                        !.result = isValid]]
    /\ isLicensed' = isValid
    /\ activeTab' = IF isValid THEN activeTab ELSE "config"

\* The startup check, or the hourly interval firing: the call runs up to
\* its fetch
StartCheck(c) ==
    /\ checks[c].pc = "idle"
    /\ c > 1 => checks[c - 1].pc # "idle"
    /\ checks' = [checks EXCEPT ![c].pc = "fetch"]
    /\ UNCHANGED <<licenseData, isLicensed, activeTab, activation, lastAnswer, now>>
    /\ UNCHANGED <<batchVars, tabVars, imageVars>>

\* fetch rejects (network error): the catch block starts reading the cache
FetchThrows(c) ==
    /\ checks[c].pc = "fetch"
    /\ checks' = [checks EXCEPT ![c].pc = "catchRead", ![c].threw = TRUE,
                                 ![c].afterInvalid = (lastAnswer = "invalid")]
    /\ UNCHANGED <<licenseData, isLicensed, activeTab, activation, lastAnswer, now>>
    /\ UNCHANGED <<batchVars, tabVars, imageVars>>

\* fetch resolves with a response
FetchReturns(c, resp) ==
    /\ checks[c].pc = "fetch"
    /\ lastAnswer' = IF SaysValid(resp) THEN "valid" ELSE "invalid"
    /\ IF resp.status = 404
       THEN /\ checks' = [checks EXCEPT ![c].pc = "read404"]
            /\ UNCHANGED <<isLicensed, activeTab>>
       ELSE IF ~resp.json
       THEN /\ checks' = [checks EXCEPT ![c].pc = "catchRead"]
            /\ UNCHANGED <<isLicensed, activeTab>>
       ELSE IF Ok(resp) /\ resp.valid
       THEN /\ checks' = [checks EXCEPT ![c].pc = "readValid", ![c].license = resp.license]
            /\ UNCHANGED <<isLicensed, activeTab>>
       ELSE Resolve(c, FALSE)
    /\ UNCHANGED <<licenseData, activation, now>>
    /\ UNCHANGED <<batchVars, tabVars, imageVars>>

\* The 404 branch after getLicenseData: with nothing stored it returns false
Read404(c) ==
    /\ checks[c].pc = "read404"
    /\ IF licenseData.present
       THEN /\ checks' = [checks EXCEPT ![c].pc = "save404", ![c].currentData = licenseData]
            /\ UNCHANGED <<isLicensed, activeTab>>
       ELSE Resolve(c, FALSE)
    /\ UNCHANGED <<licenseData, activation, lastAnswer, now>>
    /\ UNCHANGED <<batchVars, tabVars, imageVars>>

\* The 404 branch stores the data it read as invalid and returns false
Save404(c) ==
    /\ checks[c].pc = "save404"
    /\ licenseData' = [checks[c].currentData EXCEPT !.status = "invalid", !.lastChecked = now]
    /\ Resolve(c, FALSE)
    /\ UNCHANGED <<activation, lastAnswer, now>>
    /\ UNCHANGED <<batchVars, tabVars, imageVars>>

\* The valid branch after getLicenseData
ReadValid(c) ==
    /\ checks[c].pc = "readValid"
    /\ checks' = [checks EXCEPT ![c].pc = "saveValid", ![c].currentData = licenseData]
    /\ UNCHANGED <<licenseData, isLicensed, activeTab, activation, lastAnswer, now>>
    /\ UNCHANGED <<batchVars, tabVars, imageVars>>

\* result.license || currentData?.key || ''
NewKey(license, currentData) ==
    IF license # "" THEN license
    ELSE IF currentData.present THEN currentData.key ELSE ""

\* The valid branch stores newData and returns true
SaveValid(c) ==
    /\ checks[c].pc = "saveValid"
    /\ licenseData' = LicenseData(NewKey(checks[c].license, checks[c].currentData), "active", now)
    /\ Resolve(c, TRUE)
    /\ UNCHANGED <<activation, lastAnswer, now>>
    /\ UNCHANGED <<batchVars, tabVars, imageVars>>

\* The catch block's answer: currentData?.status === 'active'
CachedActive(currentData) == currentData.present /\ currentData.status = "active"

CatchReadLocksOut(c) ==
    /\ checks[c].pc = "catchRead"
    /\ Resolve(c, FALSE)
    /\ UNCHANGED <<licenseData, activation, lastAnswer, now>>
    /\ UNCHANGED <<batchVars, tabVars, imageVars>>

\* The catch block after getLicenseData
CatchRead(c) ==
    /\ checks[c].pc = "catchRead"
    /\ Resolve(c, CachedActive(licenseData))
    /\ UNCHANGED <<licenseData, activation, lastAnswer, now>>
    /\ UNCHANGED <<batchVars, tabVars, imageVars>>

\* A click on a tab of the navigation bar
SetActiveTab(tab) ==
    /\ ~(~isLicensed /\ tab # "config")
    /\ activeTab' = tab
    /\ UNCHANGED <<licenseData, isLicensed, checks, activation, lastAnswer, now>>
    /\ UNCHANGED <<batchVars, tabVars, imageVars>>

\* The visual tab's buttons that hand its prompts to another tab
AddPrompts(tab) ==
    /\ activeTab = "visual"
    /\ activeTab' = tab
    /\ UNCHANGED <<licenseData, isLicensed, checks, activation, lastAnswer, now>>
    /\ UNCHANGED <<batchVars, tabVars, imageVars>>

\* The key the user types into ConfigTab
LicenseKeys == {"KEY-B"}

\* What POST /api/activate can answer, and the error text it carries
ActivateResponses ==
    { [status |-> 200, json |-> TRUE, valid |-> TRUE, error |-> ""] }
    \cup [status : {200, 400}, json : {TRUE}, valid : {FALSE}, error : {"", "License expired"}]
    \cup { [status |-> 400, json |-> TRUE, valid |-> TRUE, error |-> ""] }
    \cup { [status |-> 500, json |-> FALSE, valid |-> FALSE, error |-> ""] }

\* validateLicenseKey's result for a response
Validated(key, resp, t) ==
    IF ~resp.json THEN LicenseData(key, "invalid", t)
    ELSE IF Ok(resp) /\ resp.valid THEN LicenseData(key, "active", t)
    ELSE IF resp.error = "License expired" THEN LicenseData(key, "expired", t)
    ELSE LicenseData(key, "invalid", t)

\* ConfigTab's save-license button: handleSaveLicense runs up to the fetch
StartActivation ==
    /\ activeTab = "config"
    /\ activation.pc = "idle"
    /\ activation' = [activation EXCEPT !.pc = "fetch"]
    /\ UNCHANGED <<licenseData, isLicensed, activeTab, checks, lastAnswer, now>>
    /\ UNCHANGED <<batchVars, tabVars, imageVars>>

\* validateLicenseKey's fetch rejects: its catch block gives an invalid result
ActivationThrows(key) ==
    /\ activation.pc = "fetch"
    /\ activation' = [pc |-> "save", result |-> LicenseData(key, "invalid", now)]
    /\ UNCHANGED <<licenseData, isLicensed, activeTab, checks, lastAnswer, now>>
    /\ UNCHANGED <<batchVars, tabVars, imageVars>>

\* validateLicenseKey's fetch resolves
ActivationReturns(key, resp) ==
    /\ activation.pc = "fetch"
    /\ activation' = [pc |-> "save", result |-> Validated(key, resp, now)]
    /\ UNCHANGED <<licenseData, isLicensed, activeTab, checks, lastAnswer, now>>
    /\ UNCHANGED <<batchVars, tabVars, imageVars>>

\* handleSaveLicense after validateLicenseKey: it stores the result and
\* calls onLicenseUpdate, which reloads the window on a valid license
ActivationSave ==
    /\ activation.pc = "save"
    /\ licenseData' = activation.result
    /\ IF activation.result.status = "active"
       THEN /\ isLicensed' = FALSE
            /\ activeTab' = "text"
            /\ checks' = [c \in CheckIds |-> NotCalled]
            /\ activation' = NotActivating
       ELSE /\ isLicensed' = FALSE
            /\ activation' = NotActivating
            /\ UNCHANGED <<activeTab, checks>>
    /\ UNCHANGED <<lastAnswer, now>>
    /\ UNCHANGED <<batchVars, tabVars, imageVars>>

\* The application starts with whatever license the store holds
LicenseInit ==
    /\ BatchUnused
    /\ LimiterIdle
    /\ InitApp
    /\ licenseData \in StoredLicenses
    /\ TabUnused
    /\ ImageUnused

LicenseNext ==
    \/ \E c \in CheckIds : StartCheck(c)
    \/ \E c \in CheckIds : FetchThrows(c)
    \/ \E c \in CheckIds, resp \in CheckResponses : FetchReturns(c, resp)
    \/ \E c \in CheckIds : Read404(c)
    \/ \E c \in CheckIds : Save404(c)
    \/ \E c \in CheckIds : ReadValid(c)
    \/ \E c \in CheckIds : SaveValid(c)
    \/ \E c \in CheckIds : CatchRead(c)
    \/ \E tab \in Tabs : SetActiveTab(tab)
    \/ \E tab \in {"text", "banana"} : AddPrompts(tab)
    \/ StartActivation
    \/ \E key \in LicenseKeys : ActivationThrows(key)
    \/ \E key \in LicenseKeys, resp \in ActivateResponses : ActivationReturns(key, resp)
    \/ ActivationSave

LicenseSpec == LicenseInit /\ [][LicenseNext]_vars

\* ------------------------------------------------------------- BananaTab
\* Everything but BananaTab's state
notImageVars == <<batchVars, now, licenseVars, tabVars>>

\* items.filter(item => item.status !== 'loading'), in index order
RECURSIVE PendingIndices(_, _)
PendingIndices(its, k) ==
    IF k = NumImages THEN <<>>
    ELSE IF its[k] # "loading" THEN <<k>> \o PendingIndices(its, k + 1)
    ELSE PendingIndices(its, k + 1)

\* The limiter's scheduling after tasks were enqueued or a slot was freed:
\* while a slot is free it runs the head of the queue. A task whose
\* controller is aborted returns at once and frees its slot; any other calls
\* generateSingle, which sets its item to 'loading' and awaits
\* generateContent.
RECURSIVE RunQueue(_, _)
RunQueue(st, ab) ==
    IF ~(st.active < ImageLimit /\ Len(st.queue) > 0) THEN st
    ELSE LET b == Head(st.queue)[1]
             k == Head(st.queue)[2]
         IN IF ab[b]
            THEN RunQueue([st EXCEPT !.queue = Tail(@), !.tasks[b][k] = "done"], ab)
            ELSE RunQueue([st EXCEPT !.queue = Tail(@), !.active = @ + 1,
                                     !.tasks[b][k] = "generate",
                                     !.items[k] = "loading"], ab)

\* The handleGenerateAll calls whose Promise.all(tasks) is resolved by tasks
SettledBatches(tasks) ==
    { b \in ImageBatchIds :
        /\ imageBatch[b] = "pending"
        /\ \A k \in ImageItems : tasks[b][k] \in {"none", "done"} }

\* The limiter's state st takes effect, and the finally block of every
\* handleGenerateAll whose tasks are all settled runs
ImageSettle(st, ref, processing) ==
    /\ items' = st.items
    /\ imageTasks' = st.tasks
    /\ imageQueue' = st.queue
    /\ imageActive' = st.active
    /\ imageBatch' = [b \in ImageBatchIds |->
                        IF b \in SettledBatches(st.tasks) THEN "ended" ELSE imageBatch[b]]
    /\ IF SettledBatches(st.tasks) # {}
       THEN isProcessing' = FALSE /\ imageControllerRef' = 0
       ELSE isProcessing' = processing /\ imageControllerRef' = ref

\* handleGenerateAll, call number b
HandleGenerateAll(b) ==
    /\ ~isProcessing
    /\ imageBatch[b] = "none"
    /\ b > 1 => imageBatch[b - 1] # "none"
    /\ PendingIndices(items, 0) # <<>>
    /\ LET pendingIndices == PendingIndices(items, 0)
           ab == [c \in ImageBatchIds |-> imageAborted[c] \/ c = imageControllerRef]
           enq == [q \in 1..Len(pendingIndices) |-> <<b, pendingIndices[q]>>]
           st == RunQueue([queue |-> imageQueue \o enq, active |-> imageActive,
                           items |-> items,
                           tasks |-> [imageTasks EXCEPT ![b] =
                                        [k \in ImageItems |->
                                           IF items[k] # "loading" THEN "queued" ELSE "none"]]],
                          ab)
       IN /\ imageAborted' = ab
          /\ items' = st.items
          /\ imageTasks' = st.tasks
          /\ imageQueue' = st.queue
          /\ imageActive' = st.active
          /\ imageBatch' = [imageBatch EXCEPT ![b] = "pending"]
          /\ isProcessing' = TRUE
          /\ imageControllerRef' = b
    /\ UNCHANGED notImageVars

\* The stop button
ImageStop ==
    /\ isProcessing
    /\ imageAborted' = [c \in ImageBatchIds |-> imageAborted[c] \/ c = imageControllerRef]
    /\ imageControllerRef' = 0
    /\ isProcessing' = FALSE
    /\ UNCHANGED <<items, imageBatch, imageTasks, imageQueue, imageActive>>
    /\ UNCHANGED notImageVars

\* What a generateContent call can come to
ImageOutcomes == {"images", "empty", "saveFails", "throws"}

\* The status generateSingle gives its item after generateContent, or
\* "kept" when it returns without a setItems
StatusAfter(outcome, signalAborted) ==
    IF outcome = "throws" THEN "error"
    ELSE IF signalAborted THEN "kept"
    ELSE IF outcome = "images" THEN "success"
    ELSE "error"

\* generateContent of item k in call b returns or throws: generateSingle
\* runs to its end, the task settles and the limiter schedules
ImageReturn(b, k, outcome) ==
    /\ imageTasks[b][k] = "generate"
    /\ LET status == StatusAfter(outcome, imageAborted[b])
           st == RunQueue([queue |-> imageQueue, active |-> imageActive - 1,
                           items |-> IF status = "kept" THEN items
                                     ELSE [items EXCEPT ![k] = status],
                           tasks |-> [imageTasks EXCEPT ![b][k] = "done"]],
                          imageAborted)
       IN ImageSettle(st, imageControllerRef, isProcessing)
    /\ UNCHANGED imageAborted
    /\ UNCHANGED notImageVars

ImageNext ==
    \/ \E b \in ImageBatchIds : HandleGenerateAll(b)
    \/ ImageStop
    \/ \E b \in ImageBatchIds, k \in ImageItems, outcome \in ImageOutcomes :
          ImageReturn(b, k, outcome)

\* BananaTab mounted with its items, nothing generated yet
ImageInit ==
    /\ BatchUnused
    /\ LimiterIdle
    /\ InitImage
    /\ LicenseUnused
    /\ TabUnused

ImageSpec == ImageInit /\ [][ImageNext]_vars

\* -------------------------------------------------------- TextToVideoTab
\* Everything but TextToVideoTab's state and the module's limiter
notTabVars == <<n, batch, aborted, pc, task, samples, i, blobUrls, filePaths,
                downloadCalls, downloadFailures, writeFailed, now, filename,
                params, body, submitCalls, submitResp, failedQuery, received,
                licenseVars, imageVars>>

\* anyProcessing, which decides whether the stop button or the generate-all
\* button is shown
AnyProcessing == isBatchProcessing \/ \E p \in PromptIds : prompts[p].isProcessing

\* The result entry a call appends: owner names the call that appended it,
\* foreign tells whether another call has written to it
NewEntry(status, r) == [status |-> status, error |-> "", owner |-> r, foreign |-> FALSE]

\* { ...results[k], ...update } as written by call r
Merge(entry, update, r) ==
    [entry EXCEPT !.status = update.status, !.error = update.error,
                  !.foreign = @ \/ entry.owner # r]

\* The updates generateVideo sends
TabLoading == [status |-> "loading", error |-> ""]
TabSuccess == [status |-> "success", error |-> ""]
TabError(message) == [status |-> "error", error |-> message]

\* handleProcessAll's callback writes to lastIdx = results.length - 1
BatchTarget(results) == Len(results)

\* retrySingle's callback writes to runIndex
RetryTargetLast(results, runIndex) == Len(results)
RetryTarget(results, runIndex) == runIndex

\* handleProcessAll's onUpdate(i, update) for call r
BatchCallback(ps, r, p, update) ==
    [ps EXCEPT ![p] = [isProcessing |-> (update.status = "loading"),
                       results |-> [ps[p].results EXCEPT ![BatchTarget(ps[p].results)] =
                                      Merge(@, update, r)]]]

\* retrySingle's onUpdate(update) for call r
RetryCallback(ps, r, p, runIndex, update) ==
    [ps EXCEPT ![p].results[RetryTarget(ps[p].results, runIndex)] = Merge(@, update, r)]

\* generateVideo's first statement for each task the limiter starts
RECURSIVE TabStarts(_, _)
TabStarts(ps, started) ==
    IF started = <<>> THEN ps
    ELSE TabStarts(BatchCallback(ps, Head(started)[1], Head(started)[2], TabLoading),
                   Tail(started))

\* setPrompts(prev => prev.map(p => ({ ...p, isProcessing: false })))
NoneProcessing(ps) == [p \in PromptIds |-> [ps[p] EXCEPT !.isProcessing = FALSE]]

\* The controller abortControllerRef holds, if any, is aborted
AbortCurrent(rs) ==
    [r \in RunIds |-> [rs[r] EXCEPT !.aborted = @ \/ r = abortControllerRef]]

\* limit(fn) puts the new tasks at the end of the limiter's queue
EnqueueInFront(q, tasks) == tasks \o q
Enqueue(q, tasks) == q \o tasks

\* handleProcessAll, as call number r: the previous controller is aborted,
\* every prompt gets a 'queued' entry, and generateBatch hands one task per
\* prompt to the module's limiter, which starts those it has a slot for
HandleProcessAll(r) ==
    /\ ~AnyProcessing
    /\ runs[r].kind = "none"
    /\ r > 1 => runs[r - 1].kind # "none"
    /\ LET ps == [p \in PromptIds |->
                    [results |-> Append(prompts[p].results, NewEntry("queued", r)),
                     isProcessing |-> FALSE]]
           enq == [q \in 1..NumPrompts |-> <<r, q - 1>>]
           d == Dequeue(Enqueue(queue, enq), activeCount, <<>>, NumPrompts)
       IN /\ prompts' = TabStarts(ps, d.started)
          /\ queue' = d.queue
          /\ activeCount' = d.activeCount
          /\ jobs' = [rr \in RunIds |-> [p \in PromptIds |->
                         LET job == IF rr = r
                                    THEN [NoJob EXCEPT !.pc = "queued",
                                                       !.own = Len(ps[p].results)]
                                    ELSE jobs[rr][p]
                         IN IF <<rr, p>> \in Range(d.started)
                            THEN [job EXCEPT !.pc = "submit"] ELSE job]]
    /\ runs' = [AbortCurrent(runs) EXCEPT ![r] = [NoRun EXCEPT !.kind = "batch"]]
    /\ abortControllerRef' = r
    /\ isBatchProcessing' = TRUE
    /\ UNCHANGED notTabVars

\* handleStop
HandleStop ==
    /\ AnyProcessing
    /\ runs' = AbortCurrent(runs)
    /\ abortControllerRef' = 0
    /\ isBatchProcessing' = FALSE
    /\ prompts' = NoneProcessing(prompts)
    /\ jobs' = [r \in RunIds |-> [p \in PromptIds |->
                   [jobs[r][p] EXCEPT !.stopSeen =
                       @ \/ jobs[r][p].pc \in {"submit", "sleep", "query"}]]]
    /\ UNCHANGED <<queue, activeCount>>
    /\ UNCHANGED notTabVars

\* retrySingle(p), as call number r: a controller of its own, an 'idle'
\* entry at runIndex, and generateVideo called directly
RetrySingle(r, p) ==
    /\ ~prompts[p].isProcessing
    /\ runs[r].kind = "none"
    /\ r > 1 => runs[r - 1].kind # "none"
    /\ LET runIndex == Len(prompts[p].results) + 1
           ps == [prompts EXCEPT ![p] =
                     [isProcessing |-> TRUE,
                      results |-> Append(prompts[p].results, NewEntry("idle", r))]]
       IN /\ prompts' = RetryCallback(ps, r, p, runIndex, TabLoading)
          /\ jobs' = [jobs EXCEPT ![r][p] = [NoJob EXCEPT !.pc = "submit", !.own = runIndex]]
    /\ runs' = [runs EXCEPT ![r] = [NoRun EXCEPT !.kind = "retry"]]
    /\ UNCHANGED <<isBatchProcessing, abortControllerRef, queue, activeCount>>
    /\ UNCHANGED notTabVars

\* generateVideo of prompt p in call r ends with its terminal update. In a
\* batch the limiter then starts the next queued task, and when the call's
\* tasks are all settled handleProcessAll's finally block runs; in a retry
\* retrySingle's finally block runs.
TabTerminate(r, p, update) ==
    IF runs[r].kind = "batch"
    THEN LET d == Dequeue(queue, activeCount - 1, <<>>, 1)
             ps == TabStarts(BatchCallback(prompts, r, p, update), d.started)
             js == [rr \in RunIds |-> [q \in PromptIds |->
                      IF rr = r /\ q = p
                      THEN [jobs[r][p] EXCEPT !.pc = "done", !.last = update]
                      ELSE IF <<rr, q>> \in Range(d.started)
                      THEN [jobs[rr][q] EXCEPT !.pc = "submit"]
                      ELSE jobs[rr][q]]]
             settled == \A q \in PromptIds : js[r][q].pc = "done"
         IN /\ queue' = d.queue
            /\ activeCount' = d.activeCount
            /\ jobs' = js
            /\ runs' = [runs EXCEPT ![r].settled = settled]
            /\ prompts' = IF settled THEN NoneProcessing(ps) ELSE ps
            /\ isBatchProcessing' = IF settled THEN FALSE ELSE isBatchProcessing
            /\ abortControllerRef' = IF settled THEN 0 ELSE abortControllerRef
    ELSE /\ prompts' = [RetryCallback(prompts, r, p, jobs[r][p].own, update)
                           EXCEPT ![p].isProcessing = FALSE]
         /\ jobs' = [jobs EXCEPT ![r][p].pc = "done", ![r][p].last = update]
         /\ runs' = [runs EXCEPT ![r].settled = TRUE]
         /\ UNCHANGED <<queue, activeCount, isBatchProcessing, abortControllerRef>>

\* generateVideo of prompt p in call r suspends at its next await
TabSuspend(r, p, at) ==
    /\ jobs' = [jobs EXCEPT ![r][p].pc = at]
    /\ UNCHANGED <<prompts, runs, queue, activeCount, isBatchProcessing,
                   abortControllerRef>>

\* pollOperation's loop head
TabLoopHead(r, p) ==
    IF runs[r].aborted THEN TabTerminate(r, p, TabError(Cancelled))
    ELSE TabSuspend(r, p, "sleep")

\* The POST :predictLongRunning of the job returns
TabSubmitReturn(r, p, ok) ==
    /\ jobs[r][p].pc = "submit"
    /\ IF ok THEN TabLoopHead(r, p)
       ELSE TabTerminate(r, p, TabError(StartFailedDefault))
    /\ UNCHANGED notTabVars

\* The 10 s sleep of the job ends
TabSleepEnd(r, p) ==
    /\ jobs[r][p].pc = "sleep"
    /\ IF runs[r].aborted THEN TabTerminate(r, p, TabError(Cancelled))
       ELSE TabSuspend(r, p, "query")
    /\ UNCHANGED notTabVars

\* What a status query can come to: not done, or done with its video
\* downloaded
TabOutcomes == {"running", "done"}

\* The status query of the job returns
TabQueryReturn(r, p, outcome) ==
    /\ jobs[r][p].pc = "query"
    /\ IF outcome = "running" THEN TabLoopHead(r, p)
       ELSE TabTerminate(r, p, TabSuccess)
    /\ UNCHANGED notTabVars

TabNext ==
    \/ \E r \in RunIds : HandleProcessAll(r)
    \/ HandleStop
    \/ \E r \in RunIds, p \in PromptIds : RetrySingle(r, p)
    \/ \E r \in RunIds, p \in PromptIds, ok \in BOOLEAN : TabSubmitReturn(r, p, ok)
    \/ \E r \in RunIds, p \in PromptIds : TabSleepEnd(r, p)
    \/ \E r \in RunIds, p \in PromptIds, outcome \in TabOutcomes :
          TabQueryReturn(r, p, outcome)

\* TextToVideoTab mounted with its prompts, the limiter idle
TabInit ==
    /\ BatchUnused
    /\ LimiterIdle
    /\ InitTab
    /\ LicenseUnused
    /\ ImageUnused

TabSpec == TabInit /\ [][TabNext]_vars

\* ------------------------------------------------------------ observations
Requests == 0..(n - 1)

IsTerminal(u) == u.status \in {"success", "error"}

\* Number of terminal updates onUpdate(idx, .) received
TerminalCount(idx) ==
    Cardinality({ k \in 1..Len(received[idx]) : IsTerminal(received[idx][k]) })

SuccessCount(idx) ==
    Cardinality({ k \in 1..Len(received[idx]) : received[idx][k].status = "success" })

StatusesOf(idx) == [k \in 1..Len(received[idx]) |-> received[idx][k].status]

Last(s) == s[Len(s)]

\* Between its 'loading' callback and its terminal callback
InLoadingPhase(idx) ==
    /\ received[idx] # <<>>
    /\ Last(received[idx]).status = "loading"

EndedWith(idx, status) ==
    /\ received[idx] # <<>>
    /\ Last(received[idx]).status = status

EndedWithError(idx, message) ==
    /\ EndedWith(idx, "error")
    /\ Last(received[idx]).error = message

\* A network call of request r is in flight, or a timer or disk write
InFlight(r) == pc[r] \in {"submit", "sleep", "query", "download", "save"}

\* The status query of r reported done:true with no sample
DoneWithoutSamples(r) ==
    /\ samples[r].read
    /\ (~samples[r].present \/ samples[r].length = 0)

\* ------------------------------------------------------------------ claims

\* C1: in a generateBatch call with more requests than the cap (2), at most 2
\* items are ever between their 'loading' callback and their terminal callback.
C1_AtMostCapLoading ==
    Cardinality({ idx \in Items : InLoadingPhase(idx) }) <= 2

\* C1 witness: a batch larger than the cap with exactly 2 items loading while
\* another waits in p-limit's queue.
C1_Witness ==
    /\ n > 2
    /\ Cardinality({ idx \in Items : InLoadingPhase(idx) }) = 2
    /\ queue # <<>>

\* C2: every index receives at most one terminal update, exactly one once its
\* generateVideo has returned (and for every index once the batch promise has
\* resolved), and every update received under index idx was produced by the
\* request at position idx.
C2_OneTerminalPerIndex ==
    /\ \A idx \in Items :
        /\ TerminalCount(idx) <= 1
        /\ \A k \in 1..Len(received[idx]) : received[idx][k].req = idx
        /\ pc[idx] = "done" => TerminalCount(idx) = 1
    /\ batch = "resolved" => \A idx \in Requests : TerminalCount(idx) = 1

\* C2 witness: items completed out of input order (item 1 has its terminal
\* update, a success, while item 0 is still running).
C2_Witness ==
    /\ n >= 2
    /\ InFlight(0)
    /\ TerminalCount(1) = 1
    /\ EndedWith(1, "success")

\* C3 (state part): the callbacks of a request are nothing before it starts,
\* 'loading' alone while any of its calls is in flight, and 'loading' followed
\* by one terminal status once it has returned; 'idle' and 'queued' never occur.
C3_Shape ==
    \A r \in Items :
        /\ pc[r] \in {"none", "queued"} => StatusesOf(r) = <<>>
        /\ InFlight(r) => StatusesOf(r) = <<"loading">>
        /\ pc[r] = "done" =>
            /\ Len(received[r]) = 2
            /\ received[r][1].status = "loading"
            /\ received[r][2].status \in {"success", "error"}

\* C3: the callback sequence of each generateVideo invocation is 'loading'
\* (emitted before any network call) then exactly one terminal update, and
\* after the terminal update no further callback fires for that request.
C3_CallbackSequence ==
    /\ []C3_Shape
    /\ [][\A r \in Items : TerminalCount(r) >= 1 => received'[r] = received[r]]_vars

\* C3 witness: a request whose callbacks were 'loading' then 'success', and
\* another whose were 'loading' then 'error'.
C3_Witness ==
    \E r, q \in Items :
        /\ StatusesOf(r) = <<"loading", "success">>
        /\ StatusesOf(q) = <<"loading", "error">>

\* A submission call / a status query of request r is issued in this step
IssuesSubmit(r) == pc[r] # "submit" /\ pc'[r] = "submit"
IssuesQuery(r) == pc[r] # "query" /\ pc'[r] = "query"

\* C4 (as claimed): once the batch's token is set, no step issues a submission
\* call or a status query for any item of the batch.
C4_NoCallIssuedAfterAbort ==
    [][aborted => \A r \in Items : ~IssuesSubmit(r) /\ ~IssuesQuery(r)]_vars

\* C5 (as claimed): once the token is set, no item receives a 'success'
\* update: the response of a call that was in flight is discarded.
C5_NoSuccessAfterAbort ==
    [][aborted => \A idx \in Items : SuccessCount(idx)' = SuccessCount(idx)]_vars

\* C6: after the token is set every request of the batch eventually has its
\* terminal callback (given that calls return and sleeps end), and a request
\* that is sleeping when the token is set gets it at the end of that sleep.
C6_CancelSettles ==
    /\ aborted ~> (\A idx \in Requests : TerminalCount(idx) = 1)
    /\ [][\A r \in Items :
            (aborted /\ pc[r] = "sleep" /\ pc'[r] # "sleep")
                => (pc'[r] = "done" /\ TerminalCount(r)' = 1)]_vars

\* C6 witness: the token was set and every request of a full batch, the one
\* queued behind the cap included, ended with the Cancelled error.
C6_Witness ==
    /\ aborted
    /\ n = NumItems
    /\ \A idx \in Requests : EndedWithError(idx, Cancelled)

\* C7: no task promise and hence the batch promise is ever rejected, every
\* failure ends as an 'error' update, and the batch promise is resolved only
\* once every request has delivered its terminal update.
C7_BatchNeverRejects ==
    /\ batch # "rejected"
    /\ \A r \in Items : task[r] # "rejected"
    /\ \A r \in Items : task[r] = "fulfilled" => TerminalCount(r) = 1
    /\ batch = "resolved" =>
          \A idx \in Requests : pc[idx] = "done" /\ TerminalCount(idx) = 1

\* C7 witness: a resolved full batch whose items failed in different ways
\* (submission failure, polling failure, no content, cancellation).
C7_Witness ==
    /\ batch = "resolved"
    /\ n = NumItems
    /\ \A idx \in Requests : EndedWith(idx, "error")
    /\ \E idx \in Requests : EndedWithError(idx, StartFailedDefault)
    /\ \E idx \in Requests : EndedWithError(idx, Cancelled)
    /\ \E idx \in Requests :
          EndedWithError(idx, PollingFailedDefault) \/ EndedWithError(idx, NoVideoInResponse)

\* C8: when a status query reports done:true with an empty or missing
\* generatedSamples list, the item ends in 'error' with the no-content message
\* and no sample download is issued.
C8_NoContentIsError ==
    \A r \in Items :
        DoneWithoutSamples(r) =>
            /\ pc[r] = "done"
            /\ StatusesOf(r) = <<"loading", "error">>
            /\ Last(received[r]).error = NoVideoInResponse
            /\ downloadCalls[r] = 0

\* C8 witness: one item ended after done:true with an empty list, another
\* after done:true with the list missing.
C8_Witness ==
    \E r, q \in Items :
        /\ DoneWithoutSamples(r) /\ samples[r].present
        /\ DoneWithoutSamples(q) /\ ~samples[q].present

\* C9 (as claimed): a completed operation that returned zero resources leaves
\* the item in 'success' with both lists empty.
C9_ZeroSamplesIsSuccess ==
    \A r \in Items :
        (DoneWithoutSamples(r) /\ pc[r] = "done") =>
            /\ EndedWith(r, "success")
            /\ Last(received[r]).videoBlobUrls = <<>>
            /\ Last(received[r]).videoFilePaths = <<>>

\* C9 (amended): every 'success' update carries exactly one videoBlobUrls
\* entry per sample of the completed operation, which reported at least one
\* sample; success with an empty videoBlobUrls list is not reachable.
C9_SuccessHasBlobPerSample ==
    \A idx \in Items : \A k \in 1..Len(received[idx]) :
        received[idx][k].status = "success" =>
            /\ samples[idx].read
            /\ samples[idx].length >= 1
            /\ Len(received[idx][k].videoBlobUrls) = samples[idx].length

\* C9 witness: the emptiest success there is: every disk write failed, so
\* videoFilePaths is empty while videoBlobUrls has its entry per sample.
C9_Witness ==
    \E idx \in Items :
        /\ EndedWith(idx, "success")
        /\ Last(received[idx]).videoFilePaths = <<>>
        /\ Len(Last(received[idx]).videoBlobUrls) = MaxSamples

\* C10 (as claimed): a failed sample download does not fail the poll: no
\* 'error' update follows from it, the remaining samples are still downloaded
\* and the item ends in 'success' with fewer outputs than samples.
C10_DownloadFailureNotFatal ==
    \A r \in Items :
        downloadFailures[r] > 0 =>
            /\ ~EndedWith(r, "error")
            /\ pc[r] = "done" =>
                /\ EndedWith(r, "success")
                /\ downloadCalls[r] = samples[r].length
                /\ Len(Last(received[r]).videoBlobUrls) < samples[r].length

\* C11 (as claimed): in every 'success' update videoBlobUrls and
\* videoFilePaths have the same number of entries.
C11_SameCardinality ==
    \A idx \in Items : \A k \in 1..Len(received[idx]) :
        received[idx][k].status = "success" =>
            Len(received[idx][k].videoBlobUrls) = Len(received[idx][k].videoFilePaths)

\* C11 (amended): in every 'success' update videoFilePaths is shorter than
\* videoBlobUrls by exactly the number of samples whose disk write failed,
\* so the two lists have the same length only when no write failed.
C11_PathsWithinPreviews ==
    \A idx \in Items : \A k \in 1..Len(received[idx]) :
        received[idx][k].status = "success" =>
            /\ Len(received[idx][k].videoFilePaths) + Cardinality(writeFailed[idx])
                 = Len(received[idx][k].videoBlobUrls)
            /\ Len(received[idx][k].videoFilePaths) <= Len(received[idx][k].videoBlobUrls)

\* C11 witness: a success whose operation had MaxSamples samples of which one
\* disk write failed: one local path fewer than preview URLs.
C11_Witness ==
    \E idx \in Items :
        /\ EndedWith(idx, "success")
        /\ Cardinality(writeFailed[idx]) = 1
        /\ Len(Last(received[idx]).videoBlobUrls) = MaxSamples
        /\ Len(Last(received[idx]).videoFilePaths) = MaxSamples - 1

\* C12 (as claimed): two items of a batch that save into the same directory
\* never have the same filename, whatever the clock reads: no two requests
\* are writing a file of the same name at the same time.
C12_FilenamesDistinct ==
    \A r \in Items : \A q \in Items :
        (r # q /\ pc[r] = "save" /\ pc[q] = "save") => filename[r] # filename[q]

\* The submission call of request k has been issued
Submitted(k) == pc[k] \notin {"none", "queued"}

\* The earlier requests of the batch that have received their terminal update
TerminalBefore(k) == { j \in 0..(k - 1) : TerminalCount(j) >= 1 }

\* C13: with the cap Limit, the submission call of the request at position
\* k >= Limit is issued only once at least k - Limit + 1 earlier requests of
\* the batch are terminal; and a request whose operation completes with one
\* sample, downloaded and written without failure, ends 'success' with
\* exactly one local path.
C13_SubmissionWaitsForSlot ==
    /\ \A k \in Requests :
          (k >= Limit /\ Submitted(k)) => Cardinality(TerminalBefore(k)) >= k - Limit + 1
    /\ \A idx \in Requests :
          (EndedWith(idx, "success") /\ samples[idx].length = 1 /\ writeFailed[idx] = {})
              => Len(Last(received[idx]).videoFilePaths) = 1

\* C13 witness: the request at position Limit has its submission in flight
\* when exactly one earlier request is terminal, a 'success' with one local
\* path, and the other earlier request is still loading.
C13_Witness ==
    /\ n = Limit + 1
    /\ pc[Limit] = "submit"
    /\ Cardinality(TerminalBefore(Limit)) = 1
    /\ \E idx \in TerminalBefore(Limit) :
          /\ EndedWith(idx, "success")
          /\ Len(Last(received[idx]).videoFilePaths) = 1
    /\ \E j \in 0..(Limit - 1) : InLoadingPhase(j)

\* The submission call of request r was answered with an operation name
NameReturned(r) ==
    /\ Len(submitResp[r]) > 0
    /\ Last(submitResp[r]).ok
    /\ Last(submitResp[r]).name

\* A step in which request r starts its 10 s sleep
StartsSleep(r) == pc[r] # "sleep" /\ pc'[r] = "sleep"

\* A step in which request r issues the download of a sample
IssuesDownload(r) == downloadCalls'[r] = downloadCalls[r] + 1

\* Where request r is inside its sample loop: the samples before i have had
\* their download and their write finished, and sample i is the only one
\* being downloaded or written.
SampleLoopPosition(r) ==
    /\ samples[r].read
    /\ i[r] < samples[r].length
    /\ downloadCalls[r] = i[r] + 1
    /\ Len(filePaths[r]) + Cardinality(writeFailed[r]) = i[r]
    /\ Len(blobUrls[r]) = IF pc[r] = "download" THEN i[r] ELSE i[r] + 1

\* C14: the steps of one generateVideo invocation are strictly sequential:
\* sleeping and querying happen only once the submission has returned an
\* operation name, every status query is issued at the end of a sleep, no
\* download is issued before a status query returned done:true, and the
\* download of sample i + 1 is issued only by the step that ends the write
\* of sample i.
C14_StrictSequence ==
    /\ [](\A r \in Items :
            /\ pc[r] \in {"sleep", "query", "download", "save"} => NameReturned(r)
            /\ downloadCalls[r] > 0 => samples[r].read
            /\ pc[r] \in {"download", "save"} => SampleLoopPosition(r))
    /\ [][\A r \in Items :
            /\ IssuesQuery(r) => pc[r] = "sleep"
            /\ StartsSleep(r) => pc[r] \in {"submit", "query"}
            /\ IssuesDownload(r) =>
                  \/ pc[r] = "query" /\ i'[r] = 0 /\ downloadCalls[r] = 0
                  \/ pc[r] = "save" /\ i'[r] = i[r] + 1]_vars

\* C14 witness: a request downloads its second sample after the download
\* and the write of its first sample have finished.
C14_Witness ==
    \E r \in Items :
        /\ pc[r] = "download"
        /\ i[r] = 1
        /\ Len(blobUrls[r]) = 1
        /\ Len(filePaths[r]) = 1
        /\ NameReturned(r)

\* C15: pollOperation reads the token right before and right after every
\* sleep: no sleep is started and no status query is issued in a state where
\* the token is set; the step that ends a sleep under a set token ends the
\* request with Cancelled; and a request that has ended issues nothing more.
C15_TokenCheckedAroundSleep ==
    [][\A r \in Items :
          /\ StartsSleep(r) => ~aborted
          /\ IssuesQuery(r) => ~aborted
          /\ (pc[r] = "sleep" /\ aborted /\ pc'[r] # "sleep") =>
                /\ pc'[r] = "done"
                /\ Last(received'[r]).status = "error"
                /\ Last(received'[r]).error = Cancelled
          /\ pc[r] = "done" => pc'[r] = "done"]_vars

\* C15 witness: the token is set while a request sleeps, and another request
\* whose submission had returned an operation name has ended with Cancelled.
C15_Witness ==
    /\ aborted
    /\ \E r \in Items : \E q \in Items :
          /\ pc[r] = "sleep"
          /\ NameReturned(q)
          /\ EndedWithError(q, Cancelled)

\* A step of request r from `from` to `to` that changes nothing else: no
\* counter, no deadline and no update is left behind by it.
OnlyMoves(r, from, to) ==
    /\ pc[r] = from
    /\ pc' = [pc EXCEPT ![r] = to]
    /\ UNCHANGED <<n, batch, aborted, queue, activeCount, task, samples, i,
                   blobUrls, filePaths, downloadCalls, downloadFailures,
                   writeFailed, now, filename, params, body, submitCalls,
                   submitResp, failedQuery, received>>

\* C16: polling has no attempt cap. While the token is not set, a sleeping
\* request can always go on to its next status query, and a query answered
\* done:false can always go back to sleep; each of the two steps changes
\* nothing but the position of the request, which stays in its 'loading'
\* phase, so the round sleep, query, sleep can be repeated without end.
C16_PollsWithoutCap ==
    /\ [](\A r \in Items :
            /\ (pc[r] = "sleep" /\ ~aborted) =>
                  ENABLED (SleepEnd(r) /\ OnlyMoves(r, "sleep", "query"))
            /\ (pc[r] = "query" /\ ~aborted) =>
                  ENABLED (QueryReturn(r, StillRunning) /\ OnlyMoves(r, "query", "sleep"))
            /\ pc[r] \in {"sleep", "query"} => InLoadingPhase(r))
    /\ [][\A r \in Items :
            /\ (pc[r] = "sleep" /\ pc'[r] = "query") => OnlyMoves(r, "sleep", "query")
            /\ (pc[r] = "query" /\ pc'[r] = "sleep") => OnlyMoves(r, "query", "sleep")
            /\ (~aborted /\ QueryReturn(r, StillRunning)) => pc'[r] = "sleep"]_vars

\* C16 witness: a request is back in its sleep with the token not set while
\* another request of the batch has already ended; nothing in the sleeping
\* request's state tells how many rounds it has polled.
C16_Witness ==
    /\ ~aborted
    /\ \E r \in Items : \E q \in Items :
          /\ pc[r] = "sleep"
          /\ InLoadingPhase(r)
          /\ EndedWith(q, "success")

\* C17: each generateVideo invocation issues exactly one submission call,
\* whose body carries exactly one instance, and never a second one: a request
\* has issued one call as soon as it has started and still one when it has
\* ended, whatever its outcome.
C17_ExactlyOneSubmission ==
    \A r \in Items :
        /\ submitCalls[r] = IF Submitted(r) THEN 1 ELSE 0
        /\ Len(submitResp[r]) = IF Submitted(r) /\ pc[r] # "submit" THEN 1 ELSE 0
        /\ Submitted(r) => Has(body[r], "instances") /\ Len(body[r].instances) = 1
        /\ ~Submitted(r) => body[r] = EmptyObject

\* C17 witness: an invocation whose params carry every optional field has
\* ended on a failed status query with one submission call issued.
C17_Witness ==
    /\ ObjectKeys(params[0]) =
          {"prompt", "aspectRatio", "image", "lastFrame", "referenceImages"}
    /\ Len(params[0].referenceImages) = MaxRefs
    /\ pc[0] = "done"
    /\ failedQuery[0]
    /\ submitCalls[0] = 1

\* Request r has ended with an 'error' update and has issued no status query
\* answered non-2xx before, no download and no read of samples
EndedInErrorAfterSubmit(r) ==
    /\ pc[r] = "done"
    /\ EndedWith(r, "error")
    /\ ~failedQuery[r]
    /\ ~samples[r].read
    /\ downloadCalls[r] = 0

\* C18 (as claimed): a request whose submission call is answered non-2xx, or
\* 2xx without an operation name, or one of whose status queries is answered
\* non-2xx, ends in 'error' with the provider's message or the fixed default
\* message of the failed call, and issues no status query or download after
\* the failure.
C18_FailureCarriesMessage ==
    \A r \in Items :
        /\ (Len(submitResp[r]) > 0 /\ ~Last(submitResp[r]).ok) =>
              /\ EndedInErrorAfterSubmit(r)
              /\ Last(received[r]).error =
                    IF Last(submitResp[r]).message THEN ProviderMessage
                    ELSE StartFailedDefault
        /\ (Len(submitResp[r]) > 0 /\ Last(submitResp[r]).ok
              /\ Last(submitResp[r]).json /\ ~Last(submitResp[r]).name) =>
              /\ EndedInErrorAfterSubmit(r)
              /\ Last(received[r]).error = NoOperationName
        /\ failedQuery[r] =>
              /\ pc[r] = "done"
              /\ EndedWith(r, "error")
              /\ Last(received[r]).error \in {ProviderMessage, PollingFailedDefault}
              /\ downloadCalls[r] = 0

\* The sample index in the filename of a local path
PathSample(path) == path[2][3]

\* C19: a disk-write failure neither fails the item nor stops the loop: the
\* step that ends a write, failed or not, goes on to the download of the next
\* sample or, after the last sample, to 'success'; and every 'success' has
\* one preview URL per sample of the operation, in sample order, and one
\* local path, in sample order, for exactly the samples whose write succeeded.
C19_WriteFailureNotFatal ==
    /\ [](\A r \in Items :
            EndedWith(r, "success") =>
               LET urls == Last(received[r]).videoBlobUrls
                   paths == Last(received[r]).videoFilePaths
               IN /\ samples[r].length >= 1
                  /\ Len(urls) = samples[r].length
                  /\ \A k \in 1..Len(urls) : urls[k] = k - 1
                  /\ { PathSample(paths[k]) : k \in 1..Len(paths) }
                        = (0..(samples[r].length - 1)) \ writeFailed[r]
                  /\ \A k \in 1..(Len(paths) - 1) :
                        PathSample(paths[k]) < PathSample(paths[k + 1]))
    /\ [][\A r \in Items :
            (pc[r] = "save" /\ pc'[r] # "save") =>
                IF i[r] + 1 < samples[r].length
                THEN pc'[r] = "download" /\ i'[r] = i[r] + 1
                ELSE pc'[r] = "done" /\ Last(received'[r]).status = "success"]_vars

\* C19 witness: a 'success' of an operation with MaxSamples samples whose
\* first write failed: the later samples were still downloaded and written.
C19_Witness ==
    \E r \in Items :
        /\ EndedWith(r, "success")
        /\ writeFailed[r] = {0}
        /\ samples[r].length = MaxSamples
        /\ Len(Last(received[r]).videoBlobUrls) = MaxSamples
        /\ Len(Last(received[r]).videoFilePaths) = MaxSamples - 1
        /\ PathSample(Last(received[r]).videoFilePaths[1]) = 1

\* C20: the body of a submission has the key parameters if and only if the
\* request has an aspectRatio, a lastFrame or a non-empty referenceImages
\* list; when it has the key the object is not empty; and the primary image,
\* when the request has one, is in the instance and never in parameters.
C20_ParametersIffNeeded ==
    \A r \in Items :
        Submitted(r) =>
            LET prm == params[r]
                instance == body[r].instances[1]
            IN /\ Has(body[r], "parameters") <=>
                      \/ Has(prm, "aspectRatio")
                      \/ Has(prm, "lastFrame")
                      \/ Has(prm, "referenceImages") /\ Len(prm.referenceImages) > 0
               /\ Has(body[r], "parameters") =>
                      /\ ObjectKeys(body[r].parameters) # {}
                      /\ ~Has(body[r].parameters, "image")
               /\ Has(instance, "image") <=> Has(prm, "image")
               /\ Has(prm, "image") =>
                      /\ instance.image.inlineData.data = prm.image.base64
                      /\ instance.image.inlineData.mimeType = prm.image.mimeType

\* C20 witness: a request with a primary image and an empty referenceImages
\* list and nothing else has been submitted: no parameters key, the image in
\* the instance.
C20_Witness ==
    /\ Submitted(0)
    /\ ObjectKeys(params[0]) = {"prompt", "image", "referenceImages"}
    /\ Len(params[0].referenceImages) = 0
    /\ ObjectKeys(body[0]) = {"instances"}
    /\ Has(body[0].instances[1], "image")
\* ------------------------------------------------------------------- C21
\* A check whose fetch failed with a network error
NetworkFailed(c) == checks[c].threw /\ checks[c].pc = "done"

\* C21: when the request of checkAndRefreshLicense fails with a network
\* error, the check returns true exactly when the cached license status is
\* 'active', and it leaves the cached license data as it was.
C21_NetworkErrorFallsBack ==
    [][\A c \in CheckIds :
          (checks[c].pc = "catchRead" /\ checks[c].threw /\ checks'[c].pc = "done")
          => /\ checks'[c].result = (licenseData.present /\ licenseData.status = "active")
             /\ isLicensed' = checks'[c].result
             /\ licenseData' = licenseData]_vars

\* A check that lost the network returned true on an active cache, while
\* the cache is still what it was
C21_Witness ==
    \E c \in CheckIds :
        /\ NetworkFailed(c)
        /\ checks[c].result
        /\ isLicensed
        /\ licenseData.status = "active"
\* ------------------------------------------------------------------- C22
\* C22: while the application is unlicensed (from startup until a check
\* resolves valid, and after any check or activation that resolves invalid)
\* the active tab is 'config' and no other tab can be activated.
C22_UnlicensedShowsConfig == ~isLicensed => activeTab = "config"

\* ------------------------------------------------------------------- C30
\* C30: when the most recent check that received an answer from the server
\* was told the license is not valid (a 404, or any answer that is not OK
\* with valid = true), a later check that fails with a network error
\* returns false.
C30_InvalidAnswerSticks ==
    \A c \in CheckIds :
        (NetworkFailed(c) /\ checks[c].afterInvalid) => ~checks[c].result
\* ------------------------------------------------------------------- C24
\* The first update request k received is 'loading'
Loaded(k) == received[k] # <<>> /\ received[k][1].status = "loading"

\* C24: within one generateBatch call the 'loading' callback and the
\* submission call of item j never come before those of an item k < j:
\* whenever a request has started, every earlier request of the batch has,
\* and the requests still queued are the last ones, in input order.
C24_StartsInInputOrder ==
    /\ \A j \in Requests : \A k \in 0..(j - 1) :
           /\ Loaded(j) => Loaded(k)
           /\ Submitted(j) => Submitted(k)
           /\ submitCalls[j] > 0 => submitCalls[k] > 0
    /\ \A j \in Requests : Submitted(j) <=> Loaded(j)
    /\ \A p \in 1..Len(queue) :
           /\ \A j \in Requests : Submitted(j) => j < queue[p]
           /\ \A q \in 1..(p - 1) : queue[q] < queue[p]

\* The terminal callbacks come in any order: the second request is terminal
\* while the first is still loading, and the third has started in its slot
C24_Witness ==
    /\ n = 3
    /\ TerminalCount(1) = 1
    /\ InLoadingPhase(0)
    /\ Loaded(2)
    /\ TerminalCount(2) = 1
\* ------------------------------------------------------------------- C25
\* C25: in the image tab, once the batches have ended no item remains
\* 'loading': every item set to 'loading' leaves it when its generation
\* call returns or observes the cancellation.
C25_NoneLeftLoading ==
    (\A b \in ImageBatchIds : imageBatch[b] # "pending")
    => \A k \in ImageItems : items[k] # "loading"
\* ------------------------------------------------------------------- C23
\* generateVideo of prompt p in call r, a retrySingle call, takes a step
RetryStep(r, p) ==
    /\ runs'[r].kind = "retry"
    /\ jobs'[r][p].pc # jobs[r][p].pc

C26_UpdatesReachOwnEntry ==
    /\ \A p \in PromptIds : \A k \in 1..Len(prompts[p].results) :
           ~prompts[p].results[k].foreign
    /\ \A r \in RunIds, p \in PromptIds :
           jobs[r][p].pc = "done" =>
              prompts[p].results[jobs[r][p].own].status \notin {"queued", "idle"}

\* ------------------------------------------------------------------- C27
\* C27: while a generateBatch call started by handleProcessAll is unresolved
\* and not cancelled, abortControllerRef holds that call's controller and
\* isBatchProcessing is true.
C27_RunningBatchOwnsController ==
    \A r \in RunIds :
        (runs[r].kind = "batch" /\ ~runs[r].settled /\ ~runs[r].aborted)
        => (abortControllerRef = r /\ isBatchProcessing)

\* ------------------------------------------------------------------- C28
\* C28: after handleStop, a generation that was in flight when it was
\* called, batch item or single retry, issues no further status query and
\* ends in 'error' with the message Cancelled (or with the error of its own
\* submission, when that call fails).
C28_StopCancelsEveryGeneration ==
    [][\A r \in RunIds, p \in PromptIds :
          jobs[r][p].stopSeen =>
             /\ jobs'[r][p].pc = "query" => jobs[r][p].pc = "query"
             /\ (jobs[r][p].pc # "done" /\ jobs'[r][p].pc = "done")
                   => jobs'[r][p].last \in
                         {TabError(Cancelled), TabError(StartFailedDefault)}]_vars

\* ------------------------------------------------------------------- C29
\* The generateVideo calls started through generateBatch that are in progress
BatchInProgress ==
    { rp \in RunIds \X PromptIds :
        /\ runs[rp[1]].kind = "batch"
        /\ jobs[rp[1]][rp[2]].pc \in {"submit", "sleep", "query"} }

\* The limiter has started the task of prompt p in call r
TabStarted(r, p) == jobs[r][p].pc \notin {"none", "queued"}

\* C29: the cap is global to the module: over all overlapping generateBatch
\* calls at most Limit generateVideo calls started by generateBatch are in
\* progress, and a task of a later call is started only when every task of
\* the earlier calls has been.
C29_CapSharedByCalls ==
    /\ Cardinality(BatchInProgress) <= Limit
    /\ activeCount = Cardinality(BatchInProgress)
    /\ \A r1 \in RunIds, r2 \in RunIds :
          (r1 < r2 /\ runs[r1].kind = "batch" /\ runs[r2].kind = "batch"
             /\ \E p \in PromptIds : TabStarted(r2, p))
          => \A q \in PromptIds : TabStarted(r1, q)

\* Two calls overlap: a task of the stopped first call and a task of the
\* second call are in progress together while the second call has tasks
\* waiting
C29_Witness ==
    /\ runs[1].kind = "batch" /\ runs[2].kind = "batch"
    /\ \E p \in PromptIds : <<1, p>> \in BatchInProgress
    /\ \E p \in PromptIds : <<2, p>> \in BatchInProgress
    /\ Cardinality(BatchInProgress) = Limit
    /\ Len(queue) > 0
====
